---------------------------- MODULE Spec2Model ----------------------------
(***************************************************************************)
(* Model of src/main.py: the gold-price scraper that fetches a page,       *)
(* extracts per-brand rows, normalises the prices and appends the rows to  *)
(* a worksheet, the append being wrapped in retry_gspread.                 *)
(*                                                                         *)
(* Text is modelled as a sequence of one-character strings, so that the    *)
(* regular expression and the separator stripping of                       *)
(* parse_currency_to_int are computed character by character.  Worksheet   *)
(* cells are strings, a worksheet row is a sequence of cells, and the      *)
(* worksheet (store) is a sequence of rows.                                *)
(***************************************************************************)
EXTENDS Integers, Sequences, FiniteSets, TLC

VARIABLES
    store,        \* the worksheet's rows, as ws.get_all_values() returns them
    credential,   \* whether GCP_SERVICE_ACCOUNT_JSON is set
    runs,         \* number of runs started so far
    pc,           \* per process: the stage of its current run
    page,         \* per process: the sections of the fetched page
    ts,           \* per process: timestamp_iso of the run
    all_data,     \* per process: raw rows collected by the section loop
    df,           \* per process: the frame scrape() returned
    attempt,      \* per process: retry_gspread's attempt
    existing,     \* per process: what get_all_values() returned in this call
    start_row,    \* per process: start_row of this call
    pending,      \* per process: the frame left after the duplicate filter
    result,       \* per process: value returned by retry_gspread, or None
    error,        \* per process: the exception that ended the run, or "none"
    status,       \* per process: status code of the last APIError, or None
    apiErrors,    \* per process: APIErrors raised inside retry_gspread this run
    writes,       \* per process: set_with_dataframe writes that took effect this run
    runStart,     \* per process: the store when the run started
    arg,          \* pure-function harness: the argument
    ret,          \* pure-function harness: the value returned
    calls,        \* two-call harness: completed append_to_sheet calls
    firstRet,     \* two-call harness: value the first call returned
    firstStore    \* two-call harness: the store after the first call

vars == <<store, credential, runs, pc, page, ts, all_data, df, attempt,
          existing, start_row, pending, result, error, status, apiErrors,
          writes, runStart, arg, ret, calls, firstRet, firstStore>>

procVars == <<pc, page, ts, all_data, df, attempt, existing, start_row,
              pending, result, error, status, apiErrors, writes, runStart>>

harnessVars == <<arg, ret, calls, firstRet, firstStore>>

-----------------------------------------------------------------------------
(* Bounds of the model. *)

\* longest text handed to parse_currency_to_int in the parsing harness
MaxLen == 5

\* most sections on a page in the scraping harness
MaxSections == 2

\* most runs of the process, one after the other
MaxRuns == 2

-----------------------------------------------------------------------------
(* Program constants. *)

\* Python's None, for an integer-valued result
None == -1

\* retry_gspread(func, max_attempts=5, ...)
max_attempts == 5

\* if len(df) < 3: raise RuntimeError
MinRows == 3

\* if status not in (429, 500, 503): raise
RetriableStatus == {429, 500, 503}

\* the ids of the sections scrape() keeps
AllowList == {"GALERI 24", "ANTAM", "Dinar G24", "ANTAM NON PEGADAIAN", "UBS"}

\* the worksheet's header row (the columns of the frame scrape() returns)
Header == <<"timestamp", "timestamp_local", "brand", "weight",
            "harga_jual", "harga_buyback">>

-----------------------------------------------------------------------------
(* parse_currency_to_int *)

Digits == {"0", "1", "2", "3", "4", "5", "6", "7", "8", "9"}

DigitVal(c) ==
    CASE c = "0" -> 0 [] c = "1" -> 1 [] c = "2" -> 2 [] c = "3" -> 3
      [] c = "4" -> 4 [] c = "5" -> 5 [] c = "6" -> 6 [] c = "7" -> 7
      [] c = "8" -> 8 [] c = "9" -> 9

\* the character class [\d\.\,]
IsRunChar(c) == c \in Digits \cup {".", ","}

\* a str value and a value that is not a str (None, a number)
Str(s) == [isStr |-> TRUE, chars |-> s]
NotStr == [isStr |-> FALSE, chars |-> <<>>]

\* re.search scans for the leftmost position where the class matches: 0 if none
RECURSIVE ScanFrom(_, _)
ScanFrom(s, i) ==
    IF i > Len(s) THEN 0
    ELSE IF IsRunChar(s[i]) THEN i
    ELSE ScanFrom(s, i + 1)

\* the greedy + extends the match while the class matches
RECURSIVE Extend(_, _)
Extend(s, j) ==
    IF j < Len(s) /\ IsRunChar(s[j + 1]) THEN Extend(s, j + 1) ELSE j

\* m.group(1) of re.search(r"([\d\.\,]+)", text); matched FALSE when m is None
re_search(s) ==
    LET i == ScanFrom(s, 1) IN
    IF i = 0 THEN [matched |-> FALSE, group |-> <<>>]
    ELSE [matched |-> TRUE, group |-> SubSeq(s, i, Extend(s, i))]

\* str.replace(ch, "")
replace(s, ch) == SelectSeq(s, LAMBDA c : c # ch)

\* int(num) for a string of the class's characters: None stands for ValueError
RECURSIVE int(_)
int(num) ==
    IF num = <<>> THEN None
    ELSE IF \E k \in 1..Len(num) : num[k] \notin Digits THEN None
    ELSE IF Len(num) = 1 THEN DigitVal(num[1])
    ELSE 10 * int(SubSeq(num, 1, Len(num) - 1)) + DigitVal(num[Len(num)])

\* the bug of stripping only one of the two separators
parse_currency_keep_commas(text) ==
    IF ~text.isStr \/ text.chars = <<>> THEN None
    ELSE LET m == re_search(text.chars) IN
         IF ~m.matched THEN None
         ELSE int(replace(m.group, "."))

parse_currency_to_int(text) ==
    IF ~text.isStr \/ text.chars = <<>> THEN None
    ELSE LET m == re_search(text.chars) IN
         IF ~m.matched THEN None
         ELSE int(replace(replace(m.group, "."), ","))

-----------------------------------------------------------------------------
(* The page: a sequence of sections, each with the id of its div, its row  *)
(* elements (each the texts of its cells) and whether parsing it raises.   *)

\* str.strip() on the ids the model uses
Strip(id) == IF id = " UBS " THEN "UBS" ELSE id

\* id=lambda x: x and x.strip() in [...]
Matched(sec) == sec.id # "" /\ Strip(sec.id) \in AllowList

\* soup.find_all("div", id=...): the matching sections in document order
find_all(pg) == SelectSeq(pg, Matched)

\* the rows parse_table has appended to its local list after the row loop
RECURSIVE ParsedRows(_, _, _)
ParsedRows(rows, brand, timestamp_iso) ==
    IF rows = <<>> THEN <<>>
    ELSE LET cols == Head(rows)
             rest == ParsedRows(Tail(rows), brand, timestamp_iso)
         IN IF Len(cols) = 3
            THEN <<[timestamp |-> timestamp_iso, brand |-> brand,
                    weight |-> cols[1], harga_jual |-> cols[2],
                    harga_buyback |-> cols[3]]>> \o rest
            ELSE rest

\* parse_table: raised tells whether it raised; parsed is its local list
parse_table(sec, brand, timestamp_iso) ==
    [raised |-> sec.throws, parsed |-> ParsedRows(sec.rows, brand, timestamp_iso)]

\* the bug of collecting into all_data directly, so a raise leaves rows behind
extend_ignoring_raise(acc, sec, timestamp_iso) ==
    acc \o parse_table(sec, Strip(sec.id), timestamp_iso).parsed

\* try: all_data.extend(parse_table(sec, brand, timestamp_iso)) except Exception
try_extend(acc, sec, timestamp_iso) ==
    LET r == parse_table(sec, Strip(sec.id), timestamp_iso) IN
    IF r.raised THEN acc ELSE acc \o r.parsed

\* for sec in sections: ...
RECURSIVE SectionLoop(_, _, _)
SectionLoop(sections, acc, timestamp_iso) ==
    IF sections = <<>> THEN acc
    ELSE SectionLoop(Tail(sections), try_extend(acc, Head(sections), timestamp_iso),
                     timestamp_iso)

\* (pd.to_datetime(ts, utc=True) + timedelta(hours=7)).dt.strftime(...)
timestamp_local(timestamp_iso) == timestamp_iso \o "+7h"

\* df.dropna(subset=["harga_jual", "harga_buyback"])
dropna(rows) ==
    SelectSeq(rows, LAMBDA r : r.harga_jual # None /\ r.harga_buyback # None)

\* lines 109-121 of scrape: the frame built from all_data
Normalized(data) ==
    LET priced == [i \in 1..Len(data) |->
                     [data[i] EXCEPT
                        !.harga_jual = parse_currency_to_int(Str(@)),
                        !.harga_buyback = parse_currency_to_int(Str(@))]]
        kept == dropna(priced)
    IN [i \in 1..Len(kept) |->
          [timestamp |-> kept[i].timestamp,
           timestamp_local |-> timestamp_local(kept[i].timestamp),
           brand |-> kept[i].brand,
           weight |-> kept[i].weight,
           harga_jual |-> kept[i].harga_jual,
           harga_buyback |-> kept[i].harga_buyback]]

\* the bug of an off-by-one row gate
too_few_off_by_one(frame) == Len(frame) < MinRows - 1

\* if len(df) < 3: raise RuntimeError
too_few(frame) == Len(frame) < MinRows

-----------------------------------------------------------------------------
(* The worksheet. *)

\* a text as the cell the worksheet holds
RECURSIVE Join(_)
Join(s) == IF s = <<>> THEN "" ELSE Head(s) \o Join(Tail(s))

\* the worksheet row set_with_dataframe writes for a frame row
SheetRow(r) ==
    <<r.timestamp, r.timestamp_local, r.brand, Join(r.weight),
      ToString(r.harga_jual), ToString(r.harga_buyback)>>

SheetRows(frame) == [i \in 1..Len(frame) |-> SheetRow(frame[i])]

\* header.index("timestamp"), 0-based; -1 when "timestamp" is not in header
RECURSIVE IndexFrom(_, _, _)
IndexFrom(header, x, i) ==
    IF i > Len(header) THEN -1
    ELSE IF header[i] = x THEN i - 1
    ELSE IndexFrom(header, x, i + 1)

\* existing_ts = {row[ts_idx] for row in existing[1:] if len(row) > ts_idx}
existing_ts(rows, ts_idx) ==
    {rows[k][ts_idx + 1] : k \in {j \in 2..Len(rows) : Len(rows[j]) > ts_idx}}

\* the bug of appending without filtering
no_filter(rows, frame) == frame

\* lines 155-167 of append_to_sheet: the frame left after the duplicate filter
filter_new(rows, frame) ==
    IF rows = <<>> THEN frame
    ELSE LET ts_idx == IndexFrom(rows[1], "timestamp", 1) IN
         IF ts_idx = -1 THEN frame
         ELSE SelectSeq(frame,
                        LAMBDA r : r.timestamp \notin existing_ts(rows, ts_idx))

\* the bug of starting at the last row instead of after it
start_at_last_row(rows) == IF Len(rows) = 0 THEN 1 ELSE Len(rows)

\* row_count = len(existing); start_row = row_count + 1
first_empty_row(rows) == Len(rows) + 1

\* set_with_dataframe(ws, df, row=start_row, include_column_header=False):
\* the cells of rows start..start+n-1 are set, the worksheet grows as needed
set_with_dataframe(sheet, frame, start) ==
    LET n == Len(frame)
        last == IF start + n - 1 > Len(sheet) THEN start + n - 1 ELSE Len(sheet)
    IN [i \in 1..last |->
          IF i >= start /\ i < start + n THEN SheetRow(frame[i - start + 1])
          ELSE IF i <= Len(sheet) THEN sheet[i]
          ELSE <<"">>]

\* the bug of an attempt too many
retry_one_more(st, att) ==
    IF st \notin RetriableStatus THEN "raise"
    ELSE IF att = max_attempts + 1 THEN "raise"
    ELSE "retry"

\* the bug of retrying whatever the status
retry_any_status(st, att) ==
    IF att = max_attempts THEN "raise" ELSE "retry"

\* retry_gspread's except clause: raise, or sleep and go round again
on_api_error(st, att) ==
    IF st \notin RetriableStatus THEN "raise"
    ELSE IF att = max_attempts THEN "raise"
    ELSE "retry"

\* the bug of not checking the environment variable
auth_unchecked(cred) == "client"

\* auth_gspread_from_env: raises RuntimeError when the variable is not set
auth_gspread_from_env(cred) == IF ~cred THEN "raise" ELSE "client"

-----------------------------------------------------------------------------
(* Inputs. *)

Procs == {1, 2}

\* the status codes an APIError may carry; None: a response without status_code
Statuses == RetriableStatus \cup {403, None}

\* values of datetime.now(timezone.utc).isoformat()
Stamps == {"t1", "t2"}

RowValid    == << <<"1", "g">>, <<"R", "1", ".", "2">>, <<"9">> >>
RowValid2   == << <<"5", "g">>, <<"3">>, <<"R", "2", ",", "0">> >>
RowBadPrice == << <<"1", "g">>, <<"R", ".", " ", "1">>, <<"9">> >>
RowTwoCells == << <<"1", "g">>, <<"9">> >>

Sec(id, rows, throws) == [id |-> id, rows |-> rows, throws |-> throws]

\* the pages a run of the whole process may fetch
RunPages ==
    { <<>>,
      << Sec("LOTUS", <<RowValid, RowValid2, RowValid>>, FALSE) >>,
      << Sec("ANTAM", <<RowTwoCells>>, FALSE) >>,
      << Sec("ANTAM", <<RowValid, RowValid2>>, FALSE) >>,
      << Sec("ANTAM", <<RowBadPrice>>, FALSE),
         Sec(" UBS ", <<RowValid>>, TRUE) >>,
      << Sec("ANTAM", <<RowValid, RowValid2>>, FALSE),
         Sec("ANTAM", <<RowValid2>>, TRUE),
         Sec(" UBS ", <<RowValid, RowTwoCells, RowBadPrice>>, FALSE) >> }

\* the row lists of a section in the scraping harness
RowLists ==
    { <<>>, <<RowValid>>, <<RowTwoCells>>, <<RowBadPrice>>,
      <<RowValid, RowValid2>>, <<RowValid2, RowBadPrice>>,
      <<RowValid, RowTwoCells, RowValid2>> }

Sections ==
    { Sec(id, rows, throws) :
        id \in {"ANTAM", " UBS ", "LOTUS"}, rows \in RowLists, throws \in BOOLEAN }

\* every page of at most MaxSections sections
Pages == UNION { [1..n -> Sections] : n \in 0..MaxSections }

\* the frame scrape() builds from a page that has rows
FrameOf(pg, t) == Normalized(SectionLoop(find_all(pg), <<>>, t))

OldRows(t) == SheetRows(FrameOf(<< Sec("ANTAM", <<RowValid, RowValid2>>, FALSE) >>, t))

\* the worksheets a run may find
InitStores ==
    { <<>>,
      <<Header>>,
      <<Header>> \o OldRows("t1"),
      <<Header>> \o OldRows("t0"),
      OldRows("t1"),
      << <<"brand", "timestamp">>, <<"ANTAM">>, <<"UBS", "t2">> >> }

\* every text of at most MaxLen characters over the harness's alphabet
Texts ==
    {NotStr} \cup
    { Str(s) : s \in UNION { [1..n -> {"R", " ", "0", "1", ".", ","}] : n \in 0..MaxLen } }

-----------------------------------------------------------------------------
(* The state after construction. *)

ProcInit(stage, frame) ==
    /\ pc = [p \in Procs |-> stage[p]]
    /\ page = [p \in Procs |-> <<>>]
    /\ ts = [p \in Procs |-> ""]
    /\ all_data = [p \in Procs |-> <<>>]
    /\ df = [p \in Procs |-> frame[p]]
    /\ attempt = [p \in Procs |-> 1]
    /\ existing = [p \in Procs |-> <<>>]
    /\ start_row = [p \in Procs |-> 1]
    /\ pending = [p \in Procs |-> <<>>]
    /\ result = [p \in Procs |-> None]
    /\ error = [p \in Procs |-> "none"]
    /\ status = [p \in Procs |-> None]
    /\ apiErrors = [p \in Procs |-> 0]
    /\ writes = [p \in Procs |-> 0]
    /\ runStart = [p \in Procs |-> store]

HarnessInit ==
    /\ arg = NotStr
    /\ ret = None
    /\ calls = 0
    /\ firstRet = None
    /\ firstStore = <<>>

\* one process, started by the scheduler; the second never runs
Init ==
    /\ store \in InitStores
    /\ credential \in BOOLEAN
    /\ runs = 1
    /\ ProcInit([p \in Procs |-> IF p = 1 THEN "FETCH" ELSE "IDLE"],
                [p \in Procs |-> <<>>])
    /\ HarnessInit

-----------------------------------------------------------------------------
(* scrape() *)

\* s.get(URL, timeout=10); resp.raise_for_status(); timestamp_iso = now()
Fetch(p, pages, stamps) ==
    /\ pc[p] = "FETCH"
    /\ \E pg \in pages, t \in stamps :
         /\ page' = [page EXCEPT ![p] = pg]
         /\ ts' = [ts EXCEPT ![p] = t]
    /\ pc' = [pc EXCEPT ![p] = "EXTRACT"]
    /\ UNCHANGED <<store, credential, runs, all_data, df, attempt, existing,
                   start_row, pending, result, error, status, apiErrors,
                   writes, runStart, harnessVars>>

\* except requests.RequestException: raise
FetchFail(p) ==
    /\ pc[p] = "FETCH"
    /\ pc' = [pc EXCEPT ![p] = "FAILED"]
    /\ error' = [error EXCEPT ![p] = "RequestException"]
    /\ UNCHANGED <<store, credential, runs, page, ts, all_data, df, attempt,
                   existing, start_row, pending, result, status, apiErrors,
                   writes, runStart, harnessVars>>

\* find_all, the section loop, and the two early returns of an empty frame
Extract(p) ==
    /\ pc[p] = "EXTRACT"
    /\ LET sections == find_all(page[p])
           data == SectionLoop(sections, <<>>, ts[p])
       IN /\ all_data' = [all_data EXCEPT ![p] = data]
          /\ IF sections = <<>> \/ data = <<>>
             THEN pc' = [pc EXCEPT ![p] = "DEDUP"]
             ELSE pc' = [pc EXCEPT ![p] = "NORMALIZE"]
    /\ UNCHANGED <<store, credential, runs, page, ts, df, attempt, existing,
                   start_row, pending, result, error, status, apiErrors,
                   writes, runStart, harnessVars>>

\* the price columns, dropna, timestamp_local, the column order
Normalize(p) ==
    /\ pc[p] = "NORMALIZE"
    /\ df' = [df EXCEPT ![p] = Normalized(all_data[p])]
    /\ pc' = [pc EXCEPT ![p] = "VALIDATE"]
    /\ UNCHANGED <<store, credential, runs, page, ts, all_data, attempt,
                   existing, start_row, pending, result, error, status,
                   apiErrors, writes, runStart, harnessVars>>

\* if len(df) < 3: raise RuntimeError(...); return df
Validate(p) ==
    /\ pc[p] = "VALIDATE"
    /\ IF too_few(df[p])
       THEN /\ pc' = [pc EXCEPT ![p] = "FAILED"]
            /\ error' = [error EXCEPT ![p] = "RuntimeError: too few rows"]
       ELSE /\ pc' = [pc EXCEPT ![p] = "DEDUP"]
            /\ UNCHANGED error
    /\ UNCHANGED <<store, credential, runs, page, ts, all_data, df, attempt,
                   existing, start_row, pending, result, status, apiErrors,
                   writes, runStart, harnessVars>>

-----------------------------------------------------------------------------
(* retry_gspread(lambda: append_to_sheet(df)) *)

\* except APIError as e: the status decides between another attempt and raise
RaiseAPIError(p, st) ==
    /\ status' = [status EXCEPT ![p] = st]
    /\ apiErrors' = [apiErrors EXCEPT ![p] = @ + 1]
    /\ IF on_api_error(st, attempt[p]) = "retry"
       THEN /\ attempt' = [attempt EXCEPT ![p] = @ + 1]
            /\ pc' = [pc EXCEPT ![p] = "DEDUP"]
            /\ UNCHANGED error
       ELSE /\ pc' = [pc EXCEPT ![p] = "FAILED"]
            /\ error' = [error EXCEPT ![p] = "APIError"]
            /\ UNCHANGED attempt

\* if df.empty: return 0
EmptyFrame(p) ==
    /\ pc[p] = "DEDUP"
    /\ df[p] = <<>>
    /\ result' = [result EXCEPT ![p] = 0]
    /\ pc' = [pc EXCEPT ![p] = "DONE"]
    /\ UNCHANGED <<store, credential, runs, page, ts, all_data, df, attempt,
                   existing, start_row, pending, error, status, apiErrors,
                   writes, runStart, harnessVars>>

\* auth_gspread_from_env raises RuntimeError, which retry_gspread does not catch
AuthFail(p) ==
    /\ pc[p] = "DEDUP"
    /\ df[p] # <<>>
    /\ auth_gspread_from_env(credential) = "raise"
    /\ pc' = [pc EXCEPT ![p] = "FAILED"]
    /\ error' = [error EXCEPT ![p] = "RuntimeError: env not set"]
    /\ UNCHANGED <<store, credential, runs, page, ts, all_data, df, attempt,
                   existing, start_row, pending, result, status, apiErrors,
                   writes, runStart, harnessVars>>

\* open_by_key, worksheet or get_all_values raises APIError
ReadFail(p) ==
    /\ pc[p] = "DEDUP"
    /\ df[p] # <<>>
    /\ auth_gspread_from_env(credential) = "client"
    /\ \E st \in Statuses : RaiseAPIError(p, st)
    /\ UNCHANGED <<store, credential, runs, page, ts, all_data, df, existing,
                   start_row, pending, result, writes, runStart, harnessVars>>

\* get_all_values, start_row, the duplicate filter, and the return of 0
Read(p) ==
    /\ pc[p] = "DEDUP"
    /\ df[p] # <<>>
    /\ auth_gspread_from_env(credential) = "client"
    /\ existing' = [existing EXCEPT ![p] = store]
    /\ start_row' = [start_row EXCEPT ![p] = first_empty_row(store)]
    /\ LET left == filter_new(store, df[p])
       IN /\ pending' = [pending EXCEPT ![p] = left]
          /\ IF left = <<>>
             THEN /\ result' = [result EXCEPT ![p] = 0]
                  /\ pc' = [pc EXCEPT ![p] = "DONE"]
             ELSE /\ pc' = [pc EXCEPT ![p] = "APPEND"]
                  /\ UNCHANGED result
    /\ UNCHANGED <<store, credential, runs, page, ts, all_data, df, attempt,
                   error, status, apiErrors, writes, runStart, harnessVars>>

\* set_with_dataframe succeeds; return len(df)
Write(p) ==
    /\ pc[p] = "APPEND"
    /\ store' = set_with_dataframe(store, pending[p], start_row[p])
    /\ writes' = [writes EXCEPT ![p] = @ + 1]
    /\ result' = [result EXCEPT ![p] = Len(pending[p])]
    /\ pc' = [pc EXCEPT ![p] = "DONE"]
    /\ UNCHANGED <<credential, runs, page, ts, all_data, df, attempt, existing,
                   start_row, pending, error, status, apiErrors, runStart,
                   harnessVars>>

\* set_with_dataframe raises APIError; the update may have been applied
WriteFail(p) ==
    /\ pc[p] = "APPEND"
    /\ \E applied \in BOOLEAN :
         IF applied
         THEN /\ store' = set_with_dataframe(store, pending[p], start_row[p])
              /\ writes' = [writes EXCEPT ![p] = @ + 1]
         ELSE UNCHANGED <<store, writes>>
    /\ \E st \in Statuses : RaiseAPIError(p, st)
    /\ UNCHANGED <<credential, runs, page, ts, all_data, df, existing,
                   start_row, pending, result, runStart, harnessVars>>

\* the scheduler starts the process again
NewRun(p) ==
    /\ pc[p] \in {"DONE", "FAILED"}
    /\ runs < MaxRuns
    /\ runs' = runs + 1
    /\ pc' = [pc EXCEPT ![p] = "FETCH"]
    /\ page' = [page EXCEPT ![p] = <<>>]
    /\ ts' = [ts EXCEPT ![p] = ""]
    /\ all_data' = [all_data EXCEPT ![p] = <<>>]
    /\ df' = [df EXCEPT ![p] = <<>>]
    /\ attempt' = [attempt EXCEPT ![p] = 1]
    /\ existing' = [existing EXCEPT ![p] = <<>>]
    /\ start_row' = [start_row EXCEPT ![p] = 1]
    /\ pending' = [pending EXCEPT ![p] = <<>>]
    /\ result' = [result EXCEPT ![p] = None]
    /\ error' = [error EXCEPT ![p] = "none"]
    /\ status' = [status EXCEPT ![p] = None]
    /\ apiErrors' = [apiErrors EXCEPT ![p] = 0]
    /\ writes' = [writes EXCEPT ![p] = 0]
    /\ runStart' = [runStart EXCEPT ![p] = store]
    /\ UNCHANGED <<store, credential, harnessVars>>

\* the process, run after run
Next ==
    \/ Fetch(1, RunPages, Stamps)
    \/ FetchFail(1)
    \/ Extract(1)
    \/ Normalize(1)
    \/ Validate(1)
    \/ EmptyFrame(1)
    \/ AuthFail(1)
    \/ ReadFail(1)
    \/ Read(1)
    \/ Write(1)
    \/ WriteFail(1)
    \/ NewRun(1)

Spec == Init /\ [][Next]_vars

-----------------------------------------------------------------------------
(* parse_currency_to_int on its own: the argument is drawn, the function   *)
(* applied once.                                                           *)

InitParse ==
    /\ store = <<Header>>
    /\ credential = TRUE
    /\ runs = 1
    /\ ProcInit([p \in Procs |-> "IDLE"], [p \in Procs |-> <<>>])
    /\ arg \in Texts
    /\ ret = None
    /\ calls = 0
    /\ firstRet = None
    /\ firstStore = <<>>

Parse ==
    /\ calls = 0
    /\ ret' = parse_currency_to_int(arg)
    /\ calls' = 1
    /\ UNCHANGED <<store, credential, runs, procVars, arg, firstRet, firstStore>>

NextParse == Parse

SpecParse == InitParse /\ [][NextParse]_vars

-----------------------------------------------------------------------------
(* scrape() on its own, over every page of at most MaxSections sections,   *)
(* followed by append_to_sheet's return for an empty frame.                *)

InitScrape ==
    /\ store = <<Header>>
    /\ credential = TRUE
    /\ runs = 1
    /\ ProcInit([p \in Procs |-> IF p = 1 THEN "FETCH" ELSE "IDLE"],
                [p \in Procs |-> <<>>])
    /\ HarnessInit

NextScrape ==
    \/ Fetch(1, Pages, {"t1"})
    \/ FetchFail(1)
    \/ Extract(1)
    \/ Normalize(1)
    \/ Validate(1)
    \/ EmptyFrame(1)

SpecScrape == InitScrape /\ [][NextScrape]_vars

-----------------------------------------------------------------------------
(* append_to_sheet called twice in sequence with the same frame, no call   *)
(* failing.  The frame's timestamp is one the worksheet does not hold.     *)

FreshStamps == {"t3", "t4"}

TwiceFrames == { FrameOf(pg, t) : pg \in RunPages, t \in FreshStamps } \ { <<>> }

InitTwice ==
    /\ store \in InitStores
    /\ credential = TRUE
    /\ runs = 1
    /\ \E frame \in TwiceFrames :
         ProcInit([p \in Procs |-> IF p = 1 THEN "DEDUP" ELSE "IDLE"],
                  [p \in Procs |-> IF p = 1 THEN frame ELSE <<>>])
    /\ HarnessInit

\* the first call has returned: call append_to_sheet(df) again
CallAgain ==
    /\ pc[1] = "DONE"
    /\ calls = 0
    /\ calls' = 1
    /\ firstRet' = result[1]
    /\ firstStore' = store
    /\ pc' = [pc EXCEPT ![1] = "DEDUP"]
    /\ result' = [result EXCEPT ![1] = None]
    /\ UNCHANGED <<store, credential, runs, page, ts, all_data, df, attempt,
                   existing, start_row, pending, error, status, apiErrors,
                   writes, runStart, arg, ret>>

NextTwice ==
    \/ Read(1)
    \/ Write(1)
    \/ CallAgain

SpecTwice == InitTwice /\ [][NextTwice]_vars

-----------------------------------------------------------------------------
(* Two instances of the process at once against one worksheet, each with   *)
(* its own timestamp, no call failing.                                     *)

ConcPages ==
    { << Sec("ANTAM", <<RowValid, RowValid2>>, FALSE),
         Sec(" UBS ", <<RowValid>>, FALSE) >>,
      << Sec("ANTAM", <<RowValid, RowValid2>>, FALSE),
         Sec(" UBS ", <<RowValid2, RowValid>>, FALSE) >> }

ConcStamp(p) == IF p = 1 THEN "t1" ELSE "t2"

InitConc ==
    /\ store \in { <<Header>>, <<Header>> \o OldRows("t0") }
    /\ credential = TRUE
    /\ runs = 1
    /\ ProcInit([p \in Procs |-> "FETCH"], [p \in Procs |-> <<>>])
    /\ HarnessInit

NextConc ==
    \E p \in Procs :
        \/ Fetch(p, ConcPages, {ConcStamp(p)})
        \/ Extract(p)
        \/ Normalize(p)
        \/ Validate(p)
        \/ Read(p)
        \/ Write(p)

SpecConc == InitConc /\ [][NextConc]_vars

-----------------------------------------------------------------------------
(* Properties of parse_currency_to_int, under SpecParse. *)

RECURSIVE Pow10(_)
Pow10(n) == IF n = 0 THEN 1 ELSE 10 * Pow10(n - 1)

\* the sum, over the positions k of T, of the digit at k times its place in D
RECURSIVE PlaceSum(_, _, _)
PlaceSum(s, D, T) ==
    IF T = {} THEN 0
    ELSE LET k == CHOOSE y \in T : TRUE IN
         DigitVal(s[k]) * Pow10(Cardinality({m \in D : m > k}))
           + PlaceSum(s, D, T \ {k})

\* s[i..j] is a maximal run of digits, '.' and ',' and no such run starts before i
IsFirstRun(s, i, j) ==
    /\ 1 <= i /\ i <= j /\ j <= Len(s)
    /\ \A k \in i..j : IsRunChar(s[k])
    /\ \A k \in 1..(i - 1) : ~IsRunChar(s[k])
    /\ (j = Len(s) \/ ~IsRunChar(s[j + 1]))

\* the number the digits at positions i..j of s spell, separators skipped
DigitsValue(s, i, j) ==
    LET D == {k \in i..j : s[k] \in Digits} IN PlaceSum(s, D, D)

\* what the claim says parse_currency_to_int returns for a value
Claimed(v) ==
    IF ~v.isStr \/ v.chars = <<>> THEN None
    ELSE LET s == v.chars
             R == {r \in (1..Len(s)) \X (1..Len(s)) : IsFirstRun(s, r[1], r[2])}
         IN IF R = {} THEN None
            ELSE LET r == CHOOSE q \in R : TRUE IN
                 IF \A k \in r[1]..r[2] : s[k] \notin Digits THEN None
                 ELSE DigitsValue(s, r[1], r[2])

\* C8: for every text, parse_currency_to_int returns the integer spelt by the
\* digits of the first maximal run of digits, '.' and ',', and None exactly
\* when the value is no string or empty, has no such run, or its first run
\* has no digit; "Rp 1.234.567" and "Rp 1,234,567" give 1234567, "" and "abc"
\* give None, and so does "Rp. 1.000".
C8_CurrencyParsing ==
    /\ calls = 1 => ret = Claimed(arg)
    /\ parse_currency_to_int(
         Str(<<"R", "p", " ", "1", ".", "2", "3", "4", ".", "5", "6", "7">>)) = 1234567
    /\ parse_currency_to_int(
         Str(<<"R", "p", " ", "1", ",", "2", "3", "4", ",", "5", "6", "7">>)) = 1234567
    /\ parse_currency_to_int(Str(<<>>)) = None
    /\ parse_currency_to_int(Str(<<"a", "b", "c">>)) = None
    /\ parse_currency_to_int(
         Str(<<"R", "p", ".", " ", "1", ".", "0", "0", "0">>)) = None

\* a text whose first run is a lone separator has been parsed to None
C8_Witness ==
    /\ calls = 1
    /\ arg = Str(<<"R", ".", " ", "1">>)
    /\ ret = None

-----------------------------------------------------------------------------
(* Properties of scrape(), under SpecScrape. *)

\* the (section, row) positions of a page whose rows the claim says are collected
Kept(pg) ==
    { q \in UNION { {<<i, j>> : j \in 1..Len(pg[i].rows)} : i \in 1..Len(pg) } :
        /\ Matched(pg[q[1]])
        /\ ~pg[q[1]].throws
        /\ Len(pg[q[1]].rows[q[2]]) = 3 }

Before(q, r) == q[1] < r[1] \/ (q[1] = r[1] /\ q[2] <= r[2])

\* the position among the positions of S, in document order
Rank(S, q) == Cardinality({r \in S : Before(r, q)})

RawRow(pg, q, t) ==
    LET sec == pg[q[1]]
        cols == sec.rows[q[2]]
    IN [timestamp |-> t, brand |-> Strip(sec.id), weight |-> cols[1],
        harga_jual |-> cols[2], harga_buyback |-> cols[3]]

\* the kept positions both of whose prices parse
Surviving(pg) ==
    { q \in Kept(pg) :
        /\ parse_currency_to_int(Str(pg[q[1]].rows[q[2]][2])) # None
        /\ parse_currency_to_int(Str(pg[q[1]].rows[q[2]][3])) # None }

FrameRow(pg, q, t) ==
    LET raw == RawRow(pg, q, t) IN
    [timestamp |-> t, timestamp_local |-> timestamp_local(t),
     brand |-> raw.brand, weight |-> raw.weight,
     harga_jual |-> parse_currency_to_int(Str(raw.harga_jual)),
     harga_buyback |-> parse_currency_to_int(Str(raw.harga_buyback))]

\* scrape() has got past the fetch and the section loop
Extracted(p) ==
    /\ pc[p] \in {"NORMALIZE", "VALIDATE", "DEDUP", "APPEND", "DONE", "FAILED"}
    /\ error[p] # "RequestException"

\* scrape() has returned or raised after the fetch
Scraped(p) ==
    /\ pc[p] \in {"DEDUP", "APPEND", "DONE", "FAILED"}
    /\ error[p] # "RequestException"

\* C7: whichever matched sections raise while being parsed, the section loop
\* collects the rows of every section that does not raise, in document order,
\* collects no row of a section that raised, and the raise does not end the run.
C7_PartialFailureIsolation ==
    Extracted(1) =>
        /\ Len(all_data[1]) = Cardinality(Kept(page[1]))
        /\ \A q \in Kept(page[1]) :
             all_data[1][Rank(Kept(page[1]), q)] = RawRow(page[1], q, ts[1])
        /\ error[1] \in {"none", "RuntimeError: too few rows"}

\* a section with rows raised, another gave its rows, and the run goes on
C7_Witness ==
    /\ pc[1] = "NORMALIZE"
    /\ \E i, j \in 1..Len(page[1]) :
         /\ Matched(page[1][i]) /\ page[1][i].throws
         /\ page[1][i].rows = <<RowValid, RowValid2>>
         /\ Matched(page[1][j]) /\ ~page[1][j].throws
         /\ page[1][j].rows = <<RowValid, RowTwoCells, RowValid2>>
    /\ Len(all_data[1]) = 2

\* C2 as stated: whenever fewer than 3 rows survive extraction and price
\* normalization (also 0 rows, because no section matched or no row had three
\* cells) scrape fails with the too-few-rows error and the run never reaches
\* DEDUP/APPEND; with 3 or more it returns exactly those rows.
C2_AsStated ==
    LET S == Surviving(page[1]) IN
    Scraped(1) =>
        IF Cardinality(S) < MinRows
        THEN pc[1] = "FAILED" /\ error[1] = "RuntimeError: too few rows"
        ELSE /\ pc[1] # "FAILED"
             /\ Len(df[1]) = Cardinality(S)
             /\ \A q \in S : df[1][Rank(S, q)] = FrameRow(page[1], q, ts[1])

\* C2, amended: when the section loop collects no row at all (no section
\* matched, or no row had three cells) scrape returns an empty frame, the run
\* goes on to append_to_sheet, which returns 0 and leaves the worksheet alone;
\* when it collects rows and fewer than 3 survive the price normalization,
\* scrape fails with the too-few-rows error and the run never reaches
\* DEDUP/APPEND; when 3 or more survive, scrape returns exactly those rows.
C2_MinimumRowsGate ==
    LET S == Surviving(page[1]) IN
    Scraped(1) =>
        IF Kept(page[1]) = {}
        THEN /\ pc[1] \in {"DEDUP", "DONE"}
             /\ df[1] = <<>>
             /\ store = runStart[1]
             /\ pc[1] = "DONE" => result[1] = 0
        ELSE IF Cardinality(S) < MinRows
        THEN pc[1] = "FAILED" /\ error[1] = "RuntimeError: too few rows"
        ELSE /\ pc[1] # "FAILED"
             /\ Len(df[1]) = Cardinality(S)
             /\ \A q \in S : df[1][Rank(S, q)] = FrameRow(page[1], q, ts[1])

\* rows were collected, exactly two survived, and the run failed on the gate
C2_Witness ==
    /\ pc[1] = "FAILED"
    /\ error[1] = "RuntimeError: too few rows"
    /\ Len(all_data[1]) >= MinRows
    /\ Len(df[1]) = MinRows - 1

-----------------------------------------------------------------------------
(* Properties of the worksheet under sequential runs, under Spec. *)

IsPrefix(a, b) == Len(a) <= Len(b) /\ SubSeq(b, 1, Len(a)) = a

\* C3: across sequential runs and retried attempts, every row the worksheet
\* held before a step is still there afterwards, at the same position and with
\* the same content; the row count never decreases; and what a step adds is
\* the rows of the call's frame, placed after the last row there was.
C3_AppendOnly ==
    [][ /\ IsPrefix(store, store')
        /\ store' # store =>
             /\ pc[1] = "APPEND"
             /\ store' = store \o SheetRows(pending[1]) ]_vars

\* a second run has appended, after a retried attempt, to a worksheet that
\* already held rows, and the rows it found are where they were
C3_Witness ==
    /\ runs = 2
    /\ Len(runStart[1]) > 1
    /\ attempt[1] > 1
    /\ writes[1] >= 1
    /\ Len(store) > Len(runStart[1])
    /\ IsPrefix(runStart[1], store)

\* C4: retry_gspread makes at most 5 attempts; an APIError with status 429,
\* 500 or 503 on an attempt before the 5th is followed by another attempt, on
\* the 5th it is propagated; an APIError with another status is propagated at
\* once; and the first attempt that succeeds ends the loop with its result.
C4_RetryPolicy ==
    /\ attempt[1] \in 1..max_attempts
    /\ pc[1] \in {"DEDUP", "APPEND", "DONE"} =>
         /\ attempt[1] = apiErrors[1] + 1
         /\ apiErrors[1] > 0 => status[1] \in RetriableStatus
         /\ error[1] = "none"
    /\ (pc[1] = "FAILED" /\ error[1] = "APIError") =>
         /\ attempt[1] = apiErrors[1]
         /\ status[1] \notin RetriableStatus \/ attempt[1] = max_attempts
    /\ (pc[1] = "FAILED" /\ error[1] # "APIError") => apiErrors[1] = 0
    /\ pc[1] = "DONE" =>
         result[1] = IF df[1] = <<>> THEN 0 ELSE Len(store) - Len(existing[1])

\* the fifth attempt ended in a retriable APIError, which was propagated
C4_Witness ==
    /\ pc[1] = "FAILED"
    /\ error[1] = "APIError"
    /\ attempt[1] = max_attempts
    /\ apiErrors[1] = max_attempts
    /\ status[1] \in RetriableStatus

StageOrder ==
    <<"FETCH", "EXTRACT", "NORMALIZE", "VALIDATE", "DEDUP", "APPEND", "DONE">>

StagePos(stage) == CHOOSE k \in 1..Len(StageOrder) : StageOrder[k] = stage

\* within a run, the process moves to a later stage of StageOrder
Forward(p) ==
    /\ pc[p] \in {StageOrder[k] : k \in 1..Len(StageOrder)}
    /\ pc'[p] \in {StageOrder[k] : k \in 1..Len(StageOrder)}
    /\ StagePos(pc'[p]) > StagePos(pc[p])

\* a step of a run that raises: the row gate, or an APIError
RowGateFails(p) == pc[p] = "VALIDATE" /\ Len(df[p]) < MinRows
APIErrorRaised(p) == apiErrors'[p] > apiErrors[p]

\* the worksheet changes in the APPEND stage alone, and a run that has failed
\* without a write having taken effect finds it as it was at the run's start
NoPartialCommit(p) ==
    /\ store' # store => pc[p] = "APPEND"
    /\ (pc'[p] = "FAILED" /\ writes'[p] = 0) => store' = runStart'[p]

\* C5 as stated: the stages of a run occur only in the order FETCH, EXTRACT,
\* NORMALIZE, VALIDATE, DEDUP, APPEND, DONE; a failure in any stage moves the
\* run to FAILED; the worksheet is modified by the APPEND stage alone, and a
\* run that fails before APPEND leaves it as it was at the run's start.
C5_AsStated ==
    [][ runs' = runs =>
          /\ pc'[1] # pc[1] => (pc'[1] = "FAILED" \/ Forward(1))
          /\ (RowGateFails(1) \/ APIErrorRaised(1)) => pc'[1] = "FAILED"
          /\ NoPartialCommit(1) ]_vars

\* C5, amended: the stages of a run occur in the order FETCH, EXTRACT,
\* NORMALIZE, VALIDATE, DEDUP, APPEND, DONE, except that an APIError with
\* status 429, 500 or 503 on an attempt before the 5th takes the run back to
\* DEDUP for another attempt; every other failure moves the run to FAILED; the
\* worksheet is modified by the APPEND stage alone, and a run that fails
\* without a write having taken effect leaves it as it was at the run's start.
C5_StageOrder ==
    [][ runs' = runs =>
          LET retried == /\ APIErrorRaised(1)
                         /\ status'[1] \in RetriableStatus
                         /\ attempt[1] < max_attempts
          IN /\ pc'[1] # pc[1] =>
                   \/ pc'[1] = "FAILED"
                   \/ Forward(1)
                   \/ retried /\ pc[1] = "APPEND" /\ pc'[1] = "DEDUP"
             /\ RowGateFails(1) => pc'[1] = "FAILED"
             /\ APIErrorRaised(1) =>
                   IF retried
                   THEN pc'[1] = "DEDUP" /\ attempt'[1] = attempt[1] + 1
                   ELSE pc'[1] = "FAILED"
             /\ NoPartialCommit(1) ]_vars

\* a write took effect, the attempt ended in a retriable APIError, and the run
\* is back in DEDUP for its next attempt
C5_Witness ==
    /\ pc[1] = "DEDUP"
    /\ attempt[1] > 1
    /\ writes[1] >= 1
    /\ status[1] \in RetriableStatus

Ended(p) == pc[p] \in {"DONE", "FAILED"}

\* the fifth attempt ended in an APIError with status 429, 500 or 503
RetriesExhausted(p) ==
    /\ error[p] = "APIError"
    /\ status[p] \in RetriableStatus
    /\ attempt[p] = max_attempts

Copies(sheet, row) == Cardinality({k \in 1..Len(sheet) : sheet[k] = row})

\* C10: in a run that found the worksheet with the fixed header, whatever
\* attempts failed and whether or not their writes took effect, at most one
\* write takes effect, the worksheet is what the run found followed by at most
\* one copy of the run's rows, and it holds each of the run's rows at most once.
C10_RetryDoesNotDuplicate ==
    (runStart[1] # <<>> /\ runStart[1][1] = Header) =>
        /\ writes[1] <= 1
        /\ store = runStart[1] \o (IF writes[1] = 1 THEN SheetRows(df[1]) ELSE <<>>)
        /\ \A i \in 1..Len(df[1]) : Copies(store, SheetRow(df[1][i])) <= 1

\* a write took effect, its attempt ended in a retriable APIError, and the
\* next attempt found the timestamp and appended nothing
C10_Witness ==
    /\ runStart[1] # <<>> /\ runStart[1][1] = Header
    /\ writes[1] = 1
    /\ attempt[1] > 1
    /\ status[1] \in RetriableStatus
    /\ pc[1] = "DONE"
    /\ result[1] = 0
    /\ store = runStart[1] \o SheetRows(df[1])

-----------------------------------------------------------------------------
(* append_to_sheet called twice, under SpecTwice. *)

\* C1 as stated: whatever the worksheet holds (nothing at all, or a first row
\* that is not the fixed header, included) and whatever non-empty frame of one
\* timestamp is given, the first of two calls with that frame appends its rows
\* and the second returns 0 and leaves the worksheet unchanged.
C1_DedupIdempotence ==
    (calls = 1 /\ pc[1] = "DONE") =>
        /\ firstRet = Len(df[1])
        /\ firstStore = runStart[1] \o SheetRows(df[1])
        /\ result[1] = 0
        /\ store = firstStore

-----------------------------------------------------------------------------
(* Two instances at once, under SpecConc. *)

RowsIn(sheet) == {sheet[k] : k \in 1..Len(sheet)}

\* C9 as stated: in every interleaving of the two instances' reads and writes
\* both append, and once both have finished the worksheet holds the rows of
\* both runs and the rows it held before, none overwritten or lost.
C9_ConcurrentRunsBothAppend ==
    (pc[1] = "DONE" /\ pc[2] = "DONE") =>
        /\ \A p \in Procs : result[p] = Len(df[p])
        /\ IsPrefix(runStart[1], store)
        /\ Len(store) = Len(runStart[1]) + Len(df[1]) + Len(df[2])
        /\ \A p \in Procs : RowsIn(SheetRows(df[p])) \subseteq RowsIn(store)

=============================================================================
